---- MODULE Spec2Model ----
(***************************************************************************)
(* Model of cse-mcp (src/src/index.ts): the company catalog, the           *)
(* Levenshtein distance, the tiered search ranking and the MCP tool        *)
(* handlers built on them.                                                 *)
(*                                                                         *)
(* A string is a sequence of one-character strings.  A catalog entry is a  *)
(* record [id, symbol, name].  A Match {company, score} holds a reference  *)
(* to a catalog entry, modelled as the entry's index in the catalog.       *)
(***************************************************************************)
EXTENDS Integers, Sequences, FiniteSets

VARIABLES
    companies,  \* the process-wide catalog (index.ts:20)
    pc,         \* where the process is: "start", "loaded", "serving", "exited"
    tool,       \* the last operation that ran
    arg,        \* its string argument (query or symbol)
    ranked,     \* the call-local companiesWithScores list after the sort
    results,    \* references to the companies returned by the last search
    isError,    \* the isError flag of the last tool result
    requested,  \* whether the last tool call issued an outbound HTTP request
    a, b, d,    \* inputs and output of the last levenshteinDistance call
    load,       \* loadCompanies: "pending", "ok" or "failed"
    assigned,   \* how many times companies has been assigned since index.ts:20
    exitCode,   \* the code of process.exit, -1 while the process runs
    outcome,    \* how the outbound request of the last tool call ended
    payload,    \* the shape of the response body it received
    thrownAt,   \* the stage of the last tool call that threw, or "none"
    text,       \* the kind of error text in the last tool result
    propagated  \* whether the last handler let an exception escape

procVars == <<load, assigned, exitCode>>

callVars == <<outcome, payload, thrownAt, text, propagated>>

vars ==
    <<companies, pc, tool, arg, ranked, results, isError, requested, a, b, d,
      procVars, callVars>>

(***************************************************************************)
(* Bounds.                                                                 *)
(***************************************************************************)
MaxLevLen == 3
MaxQueryLen == 1
MaxSymLen == 2
MaxNameLen == 3
MaxCatalog == 4
MaxLoaded == 2

(***************************************************************************)
(* Characters and strings.                                                 *)
(***************************************************************************)
Chars == {"a", "b", "B", " "}
LevChars == {"a", "b", " "}
SymChars == {"a", "B"}
NameChars == {"a", "B", " "}

StringsOver(alphabet, n) == UNION {[1..k -> alphabet] : k \in 0..n}

\* String.prototype.toLowerCase on one character
LowerChar(c) == IF c = "B" THEN "b" ELSE c

toLowerCase(s) == [k \in 1..Len(s) |-> LowerChar(s[k])]

\* the characters matched by \s
IsSpace(c) == c = " "

\* String.prototype.includes
includesNonEmpty(s, t) ==
    /\ t # <<>>
    /\ \E k \in 0..(Len(s) - Len(t)) : SubSeq(s, k + 1, k + Len(t)) = t

startsWith(s, t) == Len(t) <= Len(s) /\ SubSeq(s, 1, Len(t)) = t

includes(s, t) ==
    \E k \in 0..(Len(s) - Len(t)) : SubSeq(s, k + 1, k + Len(t)) = t

\* String.prototype.split(/\s+/): cut at every maximal run of whitespace;
\* a run at the start or the end of s leaves an empty piece there.
RECURSIVE splitFrom(_, _, _, _)
splitFrom(s, k, cur, acc) ==
    IF k > Len(s) THEN Append(acc, cur)
    ELSE IF IsSpace(s[k])
         THEN IF k > 1 /\ IsSpace(s[k - 1])
              THEN splitFrom(s, k + 1, cur, acc)
              ELSE splitFrom(s, k + 1, <<>>, Append(acc, cur))
         ELSE splitFrom(s, k + 1, Append(cur, s[k]), acc)

split(s) == splitFrom(s, 1, <<>>, <<>>)

Min2(x, y) == IF x <= y THEN x ELSE y

\* Math.min(...xs) for a non-empty list
RECURSIVE MinOf(_)
MinOf(xs) ==
    IF Len(xs) = 1 THEN xs[1] ELSE Min2(xs[1], MinOf(Tail(xs)))

(***************************************************************************)
(* levenshteinDistance (index.ts:46-72): rows are indexed by b, columns by *)
(* a; the result is the bottom-right cell.                                 *)
(***************************************************************************)
\* one cell of the matrix (index.ts:59-67) from its diagonal, left and upper
\* neighbours; same tells whether the two characters are equal
cellNoMatch(diag, left, up, same) ==
    Min2(diag + 1, Min2(left + 1, up + 1))

cellNoLeft(diag, left, up, same) ==
    IF same THEN diag ELSE Min2(diag + 1, up + 1)

cell(diag, left, up, same) ==
    IF same THEN diag ELSE Min2(diag + 1, Min2(left + 1, up + 1))

\* the inner loop (index.ts:58-68): row i, filled left to right from
\* matrix[i][0] = i (index.ts:50); column j is kept at position j + 1
RECURSIVE fillRow(_, _, _, _)
fillRow(row, prev, x, c) ==
    IF Len(row) = Len(x) + 1 THEN row
    ELSE LET j == Len(row)
         IN  fillRow(Append(row, cell(prev[j], row[j], prev[j + 1], c = x[j])),
                     prev, x, c)

\* the outer loop (index.ts:57-69): the rows below row i - 1, down to the last
RECURSIVE fillRows(_, _, _, _)
fillRows(prev, i, x, y) ==
    IF i > Len(y) THEN prev
    ELSE fillRows(fillRow(<<i>>, prev, x, y[i]), i + 1, x, y)

levenshteinDistance(x, y) ==
    LET row0 == [j \in 1..(Len(x) + 1) |-> j - 1]
        last == fillRows(row0, 1, x, y)
    IN  last[Len(x) + 1]

(***************************************************************************)
(* Edit distance from first principles: the least number of single-        *)
(* character insertions, deletions and substitutions leading from s to t,  *)
(* found by breadth-first search over the strings of LevStrings.           *)
(***************************************************************************)
LevStrings == StringsOver(LevChars, MaxLevLen)

RemoveAt(s, k) == SubSeq(s, 1, k - 1) \o SubSeq(s, k + 1, Len(s))

InsertAt(s, k, c) == SubSeq(s, 1, k - 1) \o <<c>> \o SubSeq(s, k, Len(s))

OneEdit(s) ==
    {RemoveAt(s, k) : k \in 1..Len(s)}
    \cup {[s EXCEPT ![k] = c] : k \in 1..Len(s), c \in LevChars}
    \cup (IF Len(s) < MaxLevLen
          THEN {InsertAt(s, k, c) : k \in 1..(Len(s) + 1), c \in LevChars}
          ELSE {})

RECURSIVE WithinEdits(_, _)
WithinEdits(s, k) ==
    IF k = 0 THEN {s}
    ELSE LET R == WithinEdits(s, k - 1)
         IN  R \cup UNION {OneEdit(t) : t \in R}

MinEditsFrom(s) ==
    LET reach == [k \in 0..MaxLevLen |-> WithinEdits(s, k)]
    IN  [t \in LevStrings |->
            CHOOSE k \in 0..MaxLevLen :
                /\ t \in reach[k]
                /\ \A m \in 0..(k - 1) : t \notin reach[m]]

MinEdits == [s \in LevStrings |-> MinEditsFrom(s)]

(***************************************************************************)
(* searchCompanies (index.ts:74-111).                                      *)
(***************************************************************************)
TopK == 3

\* the score one catalog entry gets for the lower-cased query (index.ts:78-105)
scoreNoExactTier(company, searchTerm) ==
    LET symbolLower == toLowerCase(company.symbol)
        nameLower == toLowerCase(company.name)
    IN  IF includes(symbolLower, searchTerm) \/ includes(nameLower, searchTerm)
        THEN 1
        ELSE LET symbolDistance == levenshteinDistance(searchTerm, symbolLower)
                 nameDistance == levenshteinDistance(searchTerm, nameLower)
                 nameWords == split(nameLower)
                 wordDistances ==
                     [k \in 1..Len(nameWords) |->
                         levenshteinDistance(searchTerm, nameWords[k])]
                 minWordDistance == MinOf(wordDistances)
             IN  Min2(symbolDistance, Min2(nameDistance, minWordDistance))

score(company, searchTerm) ==
    LET symbolLower == toLowerCase(company.symbol)
        nameLower == toLowerCase(company.name)
    IN  IF symbolLower = searchTerm \/ nameLower = searchTerm
        THEN 0
        ELSE IF includes(symbolLower, searchTerm) \/ includes(nameLower, searchTerm)
        THEN 1
        ELSE LET symbolDistance == levenshteinDistance(searchTerm, symbolLower)
                 nameDistance == levenshteinDistance(searchTerm, nameLower)
                 nameWords == split(nameLower)
                 wordDistances ==
                     [k \in 1..Len(nameWords) |->
                         levenshteinDistance(searchTerm, nameWords[k])]
                 minWordDistance == MinOf(wordDistances)
             IN  Min2(symbolDistance, Min2(nameDistance, minWordDistance))

\* companies.map(...) of index.ts:78: one Match per entry, in catalog order
companiesWithScores(catalog, searchTerm) ==
    [k \in 1..Len(catalog) |->
        [company |-> k, score |-> score(catalog[k], searchTerm)]]

\* the comparator of index.ts:108
compareDescending(x, y) == y.score - x.score

compare(x, y) == x.score - y.score

\* Array.prototype.sort(compare): a stable sort (ECMAScript 2019), here by
\* insertion: an element goes after every element that does not compare
\* greater than it.
insertUnstable(sorted, m) ==
    LET k == Cardinality({n \in 1..Len(sorted) : compare(sorted[n], m) < 0})
    IN  SubSeq(sorted, 1, k) \o <<m>> \o SubSeq(sorted, k + 1, Len(sorted))

insert(sorted, m) ==
    LET k == Cardinality({n \in 1..Len(sorted) : compare(sorted[n], m) <= 0})
    IN  SubSeq(sorted, 1, k) \o <<m>> \o SubSeq(sorted, k + 1, Len(sorted))

RECURSIVE sort(_)
sort(xs) ==
    IF xs = <<>> THEN <<>>
    ELSE insert(sort(SubSeq(xs, 1, Len(xs) - 1)), xs[Len(xs)])

\* Array.prototype.slice(0, n)
sliceNoLimit(xs, n) == xs

slice(xs, n) == SubSeq(xs, 1, Min2(n, Len(xs)))

\* the sorted call-local list of index.ts:108
rankedMatches(catalog, query) ==
    sort(companiesWithScores(catalog, toLowerCase(query)))

\* index.ts:110: the companies of the first three Matches
topCompanies(sorted) ==
    LET top == slice(sorted, TopK)
    IN  [k \in 1..Len(top) |-> top[k].company]

searchCompanies(catalog, query) == topCompanies(rankedMatches(catalog, query))

(***************************************************************************)
(* SpecLev: levenshteinDistance applied to every pair of bounded strings.  *)
(***************************************************************************)
NoCall == "none"

InitLev ==
    /\ companies = <<>>
    /\ pc = "serving"
    /\ tool = NoCall
    /\ arg = <<>>
    /\ ranked = <<>>
    /\ results = <<>>
    /\ isError = FALSE
    /\ requested = FALSE
    /\ a \in LevStrings
    /\ b \in LevStrings
    /\ d = -1
    /\ load = "ok"
    /\ assigned = 1
    /\ exitCode = -1
    /\ outcome = "none"
    /\ payload = "none"
    /\ thrownAt = "none"
    /\ text = "none"
    /\ propagated = FALSE

Distance ==
    /\ d = -1
    /\ d' = levenshteinDistance(a, b)
    /\ tool' = "levenshteinDistance"
    /\ UNCHANGED <<companies, pc, arg, ranked, results, isError, requested, a, b,
                   procVars, callVars>>

NextLev == Distance

SpecLev == InitLev /\ [][NextLev]_vars

\* C5: levenshteinDistance(a, b) is the minimum number of single-character
\* insertions, deletions and substitutions that transform a into b; so it is
\* 0 for equal strings and the other string's length when one is empty.
LevIsMinimumEdits ==
    d # -1 =>
        /\ d = MinEdits[a][b]
        /\ (a = b => d = 0)
        /\ (a = <<>> => d = Len(b))
        /\ (b = <<>> => d = Len(a))

LevWitness == d # -1 /\ Len(a) = 2 /\ Len(b) = 3 /\ d = 3

\* C6: levenshteinDistance(a, b) = levenshteinDistance(b, a).
LevSymmetric == d # -1 => d = levenshteinDistance(b, a)

LevSymmetricWitness == d # -1 /\ Len(a) = 1 /\ Len(b) = 3 /\ d = 2

(***************************************************************************)
(* Catalogs.  Pool holds representative entries: an upper-case symbol in   *)
(* the ticker format, names of several words, an entry with empty symbol   *)
(* and name, and an entry of one letter only.                              *)
(***************************************************************************)
Pool ==
    { [id |-> 1, symbol |-> <<"B", ".", "B">>, name |-> <<"a", " ", "b">>],
      [id |-> 2, symbol |-> <<"B">>, name |-> <<"b", " ", "a">>],
      [id |-> 3, symbol |-> <<>>, name |-> <<>>],
      [id |-> 4, symbol |-> <<"a", "a">>, name |-> <<"a", "a", "a">>] }

CatalogsOver(entries, n) == UNION {[1..k -> entries] : k \in 0..n}

\* every one-entry catalog with bounded symbol and name
SingleCatalogs ==
    { <<[id |-> 9, symbol |-> s, name |-> n]>> :
        s \in StringsOver(SymChars, MaxSymLen), n \in StringsOver(NameChars, MaxNameLen) }

Queries == StringsOver(Chars, MaxQueryLen)

(***************************************************************************)
(* SpecSearch: searchCompanies applied to a catalog and a query.           *)
(***************************************************************************)
\* the catalog after a search: map() at index.ts:78 builds a new list, so
\* the in-place sort of index.ts:108 does not touch companies
companiesSortedInPlace(catalog, query) ==
    LET sorted == rankedMatches(catalog, query)
    IN  [k \in 1..Len(catalog) |-> catalog[sorted[k].company]]

companiesAfterSearch(catalog, query) == catalog

InitSearch ==
    /\ companies \in CatalogsOver(Pool, MaxCatalog) \cup SingleCatalogs
    /\ pc = "serving"
    /\ tool = NoCall
    /\ arg = <<>>
    /\ ranked = <<>>
    /\ results = <<>>
    /\ isError = FALSE
    /\ requested = FALSE
    /\ a = <<>>
    /\ b = <<>>
    /\ d = -1
    /\ load = "ok"
    /\ assigned = 1
    /\ exitCode = -1
    /\ outcome = "none"
    /\ payload = "none"
    /\ thrownAt = "none"
    /\ text = "none"
    /\ propagated = FALSE

Search ==
    /\ tool = NoCall
    /\ \E query \in Queries :
        /\ tool' = "searchCompanies"
        /\ arg' = query
        /\ ranked' = rankedMatches(companies, query)
        /\ results' = topCompanies(ranked')
        /\ companies' = companiesAfterSearch(companies, query)
    /\ UNCHANGED <<pc, isError, requested, a, b, d, procVars, callVars>>

NextSearch == Search

SpecSearch == InitSearch /\ [][NextSearch]_vars

(***************************************************************************)
(* Properties of searchCompanies, stated on the state after Search.        *)
(***************************************************************************)
Searched == tool = "searchCompanies"

\* the score of every catalog entry, by position, for the query of the call
Scores == [k \in 1..Len(companies) |-> score(companies[k], toLowerCase(arg))]

\* the place in ranked of the Match of every catalog entry, by position
Ranks ==
    [k \in 1..Len(companies) |->
        CHOOSE p \in 1..Len(ranked) : ranked[p].company = k]

\* t occurs in s as a contiguous block
IsSubstring(t, s) ==
    \E i \in 0..Len(s) : \E j \in i..Len(s) : SubSeq(s, i + 1, j) = t

\* the lower-cased query equals the lower-cased symbol or name of entry k
ExactMatch(k) ==
    \/ toLowerCase(arg) = toLowerCase(companies[k].symbol)
    \/ toLowerCase(arg) = toLowerCase(companies[k].name)

\* the lower-cased query occurs in the lower-cased symbol or name of entry k
SubstringMatch(k) ==
    \/ IsSubstring(toLowerCase(arg), toLowerCase(companies[k].symbol))
    \/ IsSubstring(toLowerCase(arg), toLowerCase(companies[k].name))

\* C1: searchCompanies returns exactly min(3, catalogSize) entities: none for
\* an empty catalog, never more than 3.
SearchReturnsMin3 ==
    Searched =>
        /\ Len(results) = (IF Len(companies) < 3 THEN Len(companies) ELSE 3)
        /\ Len(results) <= 3
        /\ (companies = <<>> => results = <<>>)

SearchTruncatesWitness ==
    Searched /\ Len(companies) = 4 /\ Len(results) = 3

\* C2: two returned entities with equal scores appear in the order of their
\* positions in the catalog.
SearchStable ==
    Searched =>
        \A sc \in {Scores} :
            \A p \in 1..Len(results) : \A q \in 1..Len(results) :
                (p < q /\ sc[results[p]] = sc[results[q]])
                    => results[p] < results[q]

SearchStableWitness ==
    /\ Searched
    /\ \E p \in 1..Len(results) : \E q \in 1..Len(results) :
          p < q /\ Scores[results[p]] = Scores[results[q]]
    /\ \E p \in 1..Len(results) : results[p] # p

\* C3: an entity whose lower-cased symbol or name equals the lower-cased query
\* has score 0, and every entity ranked before it is an exact match too.
ExactMatchFirst ==
    Searched =>
        \A rk \in {Ranks} :
            \A k \in 1..Len(companies) :
                ExactMatch(k) =>
                    /\ ranked[rk[k]].score = 0
                    /\ \A p \in 1..(rk[k] - 1) : ExactMatch(ranked[p].company)

ExactMatchFirstWitness ==
    /\ Searched
    /\ Len(companies) >= 2
    /\ ~ExactMatch(1)
    /\ \E k \in 2..Len(companies) : ExactMatch(k) /\ Ranks[k] = 1

\* C7: the scores never decrease along the result, no entity left out scores
\* lower than a returned one, and an entity with score 1 is ranked before
\* every entity with score 2 or more.
SearchLowestFirst ==
    Searched =>
        \A sc \in {Scores} : \A rk \in {Ranks} :
            /\ \A p \in 1..Len(results) : \A q \in 1..Len(results) :
                  p < q => sc[results[p]] <= sc[results[q]]
            /\ \A k \in 1..Len(companies) : \A p \in 1..Len(results) :
                  (\A q \in 1..Len(results) : results[q] # k)
                      => sc[k] >= sc[results[p]]
            /\ \A k \in 1..Len(companies) : \A m \in 1..Len(companies) :
                  (sc[k] = 1 /\ sc[m] >= 2) => rk[k] < rk[m]

SearchLowestFirstWitness ==
    /\ Searched
    /\ Len(companies) = 4
    /\ Scores[1] >= 2
    /\ Scores[4] = 1
    /\ \E p \in 1..Len(results) : results[p] = 4
    /\ \A p \in 1..Len(results) : results[p] # 1

(***************************************************************************)
(* The tiered reference score: words are the maximal runs of               *)
(* non-whitespace characters of the name.                                  *)
(***************************************************************************)
WordsOf(s) ==
    { SubSeq(s, i, j) : i \in 1..Len(s), j \in 1..Len(s) } \ {<<>>}

IsWordOf(w, s) ==
    /\ w # <<>>
    /\ \A n \in 1..Len(w) : ~IsSpace(w[n])
    /\ \E i \in 1..Len(s) :
          /\ i + Len(w) - 1 <= Len(s)
          /\ SubSeq(s, i, i + Len(w) - 1) = w
          /\ (i = 1 \/ IsSpace(s[i - 1]))
          /\ (i + Len(w) - 1 = Len(s) \/ IsSpace(s[i + Len(w)]))

Words(s) == {w \in WordsOf(s) : IsWordOf(w, s)}

LeastOf(S) == CHOOSE x \in S : \A y \in S : x <= y

ReferenceScore(query, company) ==
    LET q == toLowerCase(query)
        sym == toLowerCase(company.symbol)
        nm == toLowerCase(company.name)
    IN  IF q = sym \/ q = nm THEN 0
        ELSE IF IsSubstring(q, sym) \/ IsSubstring(q, nm) THEN 1
        ELSE LeastOf({levenshteinDistance(q, sym), levenshteinDistance(q, nm)}
                     \cup {levenshteinDistance(q, w) : w \in Words(nm)})

\* C4: the score of every (query, entity) pair is the tiered reference
\* score: 0 for an exact match, else 1 for a substring match, else the least
\* of the distances to the symbol, the name and the words of the name.
ScoreIsReference ==
    Searched =>
        \A p \in 1..Len(ranked) :
            ranked[p].score = ReferenceScore(arg, companies[ranked[p].company])

\* C8 as stated: for the empty query every entity scores 1 and the result is
\* the first min(3, catalogSize) entities in catalog order, whatever the
\* catalog.
EmptyQueryCatalogOrder ==
    (Searched /\ arg = <<>>) =>
        /\ \A p \in 1..Len(ranked) : ranked[p].score = 1
        /\ results = [k \in 1..(IF Len(companies) < 3 THEN Len(companies) ELSE 3) |-> k]

NoEmptyField ==
    \A k \in 1..Len(companies) :
        companies[k].symbol # <<>> /\ companies[k].name # <<>>

\* C8 amended: for the empty query an entity with an empty symbol or name
\* scores 0 and every other entity scores 1; when no record has an empty
\* symbol or name the result is the first min(3, catalogSize) entities in
\* catalog order.
EmptyQueryCatalogOrderNoEmptyField ==
    (Searched /\ arg = <<>>) =>
        /\ \A p \in 1..Len(ranked) :
              ranked[p].score =
                  (IF \/ companies[ranked[p].company].symbol = <<>>
                      \/ companies[ranked[p].company].name = <<>>
                   THEN 0 ELSE 1)
        /\ NoEmptyField =>
              results = [k \in 1..(IF Len(companies) < 3 THEN Len(companies) ELSE 3) |-> k]

EmptyQueryWitness ==
    Searched /\ arg = <<>> /\ Len(companies) = 4 /\ NoEmptyField
        /\ results = <<1, 2, 3>>

\* C9 as stated: an entity that is neither an exact nor a substring match
\* scores at least 2.
FuzzyAtLeastTwo ==
    Searched =>
        \A k \in 1..Len(companies) :
            (~ExactMatch(k) /\ ~SubstringMatch(k)) => ranked[Ranks[k]].score >= 2

\* C9 amended: an entity that is neither an exact nor a substring match
\* scores at least 1, and score 0 is reserved for exact matches; score 1 is
\* shared by the substring tier and the fuzzy matches at distance 1.
FuzzyAtLeastOne ==
    Searched =>
        \A k \in 1..Len(companies) :
            /\ (~ExactMatch(k) /\ ~SubstringMatch(k)) => ranked[Ranks[k]].score >= 1
            /\ ranked[Ranks[k]].score = 0 <=> ExactMatch(k)

FuzzyOneWitness ==
    /\ Searched
    /\ \E k \in 1..Len(companies) :
          ~ExactMatch(k) /\ ~SubstringMatch(k) /\ ranked[Ranks[k]].score = 1

(***************************************************************************)
(* Spec: the server process (main, index.ts:328-634) and its tools.        *)
(***************************************************************************)
\* queries the search_company schema admits: z.string().min(1), index.ts:342
ToolQueries == {q \in StringsOver({"a", "B"}, MaxQueryLen) : Len(q) >= 1}

\* symbols that pass the schema's /^[A-Z]+\.[A-Z0-9]+$/ (index.ts:384, 426)
ToolSymbols == { <<"B", ".", "B">>, <<"B", "B", ".", "B">>, <<"B", ".", "B", "B">> }

\* how an outbound request can end: a response, or the three failures the
\* helpers tell apart (index.ts:143-151)
Outcomes == {"ok", "timeout", "http_error", "network_error"}

\* shapes of a response body: every field as expected; a null body; the
\* expected fields absent; a value of the wrong type (a string for a number,
\* an object for the list, an unparsable tradeDate)
Payloads == {"valid", "null", "missing", "wrong_type"}

SymbolTools == {"get_stock_data", "get_detailed_company_info"}

MarketTools ==
    {"get_top_gainers", "get_top_losers", "get_most_active_stocks",
     "get_market_summary"}

\* companies.find(c => c.symbol === symbol), index.ts:114 and 155
findPrefix(catalog, symbol) ==
    {k \in 1..Len(catalog) : startsWith(symbol, catalog[k].symbol)}

find(catalog, symbol) == {k \in 1..Len(catalog) : catalog[k].symbol = symbol}

\* process.exit(1), index.ts:42 and 638
ExitFailure == 1

\* where main stands once loadCompanies has caught a failure: process.exit
\* at index.ts:42 ends the process
afterLoadFailureContinue == "loaded"

afterLoadFailure == "exited"

Init ==
    /\ companies = <<>>
    /\ pc = "start"
    /\ tool = NoCall
    /\ arg = <<>>
    /\ ranked = <<>>
    /\ results = <<>>
    /\ isError = FALSE
    /\ requested = FALSE
    /\ a = <<>>
    /\ b = <<>>
    /\ d = -1
    /\ load = "pending"
    /\ assigned = 0
    /\ exitCode = -1
    /\ outcome = "none"
    /\ payload = "none"
    /\ thrownAt = "none"
    /\ text = "none"
    /\ propagated = FALSE

\* loadCompanies (index.ts:22-44): the catalog is assigned from the parsed
\* file, or the process exits with code 1
LoadCompanies ==
    /\ pc = "start"
    /\ \/ /\ companies' \in CatalogsOver(Pool, MaxLoaded)
          /\ assigned' = assigned + 1
          /\ load' = "ok"
          /\ pc' = "loaded"
          /\ UNCHANGED exitCode
       \/ /\ load' = "failed"
          /\ pc' = afterLoadFailure
          /\ exitCode' = IF afterLoadFailure = "exited" THEN ExitFailure ELSE exitCode
          /\ UNCHANGED <<companies, assigned>>
    /\ UNCHANGED <<tool, arg, ranked, results, isError, requested, a, b, d, callVars>>

\* the rest of main (index.ts:331-633): tools registered, transport connected;
\* a failure is caught at index.ts:636 and the process exits
Connect ==
    /\ pc = "loaded"
    /\ \/ /\ pc' = "serving"
          /\ UNCHANGED exitCode
       \/ /\ pc' = "exited"
          /\ exitCode' = ExitFailure
    /\ UNCHANGED <<companies, tool, arg, ranked, results, isError, requested,
                   a, b, d, load, assigned, callVars>>

\* search_company handler (index.ts:345-374)
SearchCompany ==
    /\ pc = "serving"
    /\ \E query \in ToolQueries :
        /\ tool' = "search_company"
        /\ arg' = query
        /\ ranked' = rankedMatches(companies, query)
        /\ results' = topCompanies(ranked')
        /\ companies' = companiesAfterSearch(companies, query)
        /\ isError' = FALSE
        /\ requested' = FALSE
    /\ outcome' = "none"
    /\ payload' = "none"
    /\ thrownAt' = "none"
    /\ text' = "none"
    /\ propagated' = FALSE
    /\ UNCHANGED <<pc, a, b, d, procVars>>

\* the stage at which a response body of shape p makes the tool throw:
\* "helper" inside the get... function's try, "format" in the handler's
\* formatting, "none" when the body goes through
processing(name, p) ==
    IF p = "valid" THEN "none"
    ELSE IF name = "get_stock_data"
    \* data.id on null (index.ts:135); price.toFixed on undefined or on a
    \* string (index.ts:400)
    THEN IF p = "null" THEN "helper" ELSE "format"
    ELSE IF name = "get_detailed_company_info"
    \* data.reqSymbolInfo on null (index.ts:174); absent fields are shown as
    \* N/A (index.ts:440-447); toFixed on a string (index.ts:440)
    THEN IF p = "null" THEN "helper" ELSE IF p = "missing" THEN "none" ELSE "format"
    ELSE IF name \in {"get_top_gainers", "get_top_losers"}
    \* null becomes [] (index.ts:214, 246); price.toFixed on undefined
    \* (index.ts:480, 525); data.map on an object (index.ts:216, 248)
    THEN IF p = "null" THEN "none" ELSE IF p = "missing" THEN "format" ELSE "helper"
    ELSE IF name = "get_most_active_stocks"
    \* null becomes [] (index.ts:278); absent fields are shown as N/A
    \* (index.ts:568-570); data.map on an object (index.ts:280)
    THEN IF p = "wrong_type" THEN "helper" ELSE "none"
    \* get_market_summary: null becomes {} (index.ts:310); absent fields are
    \* shown as N/A (index.ts:612-614); toISOString of an invalid date throws
    \* (index.ts:315)
    ELSE IF p = "wrong_type" THEN "helper" ELSE "none"

\* the stage of a call that threw, given how its request ended
failedStage(name, o, p) == IF o # "ok" THEN "request" ELSE processing(name, p)

\* the message of the error the handler receives: the lookup's
\* (index.ts:117), the helper's catch (index.ts:143-151), which also wraps
\* what its own try threw, or the formatting's TypeError
errorText(stage, o) ==
    IF stage = "lookup" THEN "not_found"
    ELSE IF stage = "request"
    THEN IF o = "timeout" THEN "timed_out"
         ELSE IF o = "http_error" THEN "api_error" ELSE "network_error"
    ELSE IF stage = "helper" THEN "network_error"
    ELSE IF stage = "format" THEN "type_error"
    ELSE "none"

\* whether the handler's try block encloses the stage: it encloses the call
\* of the helper and the formatting alike (index.ts:389-415)
handlerCatchesHelperOnly(stage) == stage # "format"

handlerCatches(stage) == TRUE

\* the handler's result for a call that threw at stage, or went through
Reply(stage, o) ==
    /\ thrownAt' = stage
    /\ isError' = (stage # "none" /\ handlerCatches(stage))
    /\ text' = IF stage # "none" /\ handlerCatches(stage)
               THEN errorText(stage, o) ELSE "none"
    /\ propagated' = (stage # "none" /\ ~handlerCatches(stage))

\* the outbound request of a tool and what the tool makes of its end
Request(name) ==
    /\ requested' = TRUE
    /\ \E o \in Outcomes : \E p \in Payloads :
        /\ outcome' = o
        /\ payload' = IF o = "ok" THEN p ELSE "none"
        /\ Reply(failedStage(name, o, p), o)

\* a handler that looks the symbol up before its request:
\* get_stock_data (index.ts:388-416 with getStockData, 113-152) and
\* get_detailed_company_info (index.ts:430-461 with 154-199)
SymbolTool(name) ==
    /\ pc = "serving"
    /\ \E symbol \in ToolSymbols :
        /\ tool' = name
        /\ arg' = symbol
        /\ \/ /\ find(companies, symbol) = {}
              /\ requested' = FALSE
              /\ outcome' = "none"
              /\ payload' = "none"
              /\ Reply("lookup", "none")
           \/ /\ find(companies, symbol) # {}
              /\ Request(name)
    /\ UNCHANGED <<companies, pc, ranked, results, a, b, d, procVars>>

GetStockData == SymbolTool("get_stock_data")

GetDetailedCompanyInfo == SymbolTool("get_detailed_company_info")

\* a handler with no input: get_top_gainers (index.ts:471-506),
\* get_top_losers (516-551), get_most_active_stocks (561-593),
\* get_market_summary (603-628)
MarketTool(name) ==
    /\ pc = "serving"
    /\ tool' = name
    /\ arg' = <<>>
    /\ Request(name)
    /\ UNCHANGED <<companies, pc, ranked, results, a, b, d, procVars>>

GetTopGainers == MarketTool("get_top_gainers")

GetTopLosers == MarketTool("get_top_losers")

GetMostActiveStocks == MarketTool("get_most_active_stocks")

GetMarketSummary == MarketTool("get_market_summary")

Next ==
    \/ LoadCompanies
    \/ Connect
    \/ SearchCompany
    \/ GetStockData
    \/ GetDetailedCompanyInfo
    \/ GetTopGainers
    \/ GetTopLosers
    \/ GetMostActiveStocks
    \/ GetMarketSummary

Spec == Init /\ [][Next]_vars

\* C10: once the catalog is loaded no tool call changes it: length, order and
\* every entity's id, symbol and name stay as they are.
CatalogUnchanged == [][pc = "serving" => companies' = companies]_vars

CatalogUnchangedWitness ==
    /\ tool = "search_company"
    /\ \E p \in 1..Len(ranked) : ranked[p].company # p

\* C11: the catalog is assigned once, and only a successful load leads to
\* registering the tools, connecting and serving calls; a failed load ends the
\* process with code 1 before any tool call is served.
LoadBeforeServe ==
    /\ assigned <= 1
    /\ pc \in {"loaded", "serving"} => (load = "ok" /\ assigned = 1)
    /\ tool # NoCall => (load = "ok" /\ assigned = 1)
    /\ load = "failed" =>
          (pc = "exited" /\ exitCode = 1 /\ tool = NoCall /\ assigned = 0)

LoadBeforeServeWitness ==
    /\ tool = "search_company"
    /\ load = "ok"
    /\ assigned = 1
    /\ Len(companies) = 2
    /\ Len(results) = 2

\* some catalog entry has exactly this symbol
InCatalog(symbol) == \E k \in 1..Len(companies) : companies[k].symbol = symbol

\* C12: get_stock_data and get_detailed_company_info answer a symbol that no
\* catalog entry has with the "not found" error result and no outbound
\* request; a request is issued only for a symbol of the catalog.
SymbolValidatedFirst ==
    tool \in SymbolTools =>
        /\ ~InCatalog(arg) =>
              (isError /\ text = "not_found" /\ ~requested /\ outcome = "none")
        /\ requested => InCatalog(arg)

SymbolNotFoundWitness ==
    /\ tool = "get_detailed_company_info"
    /\ companies # <<>>
    /\ ~InCatalog(arg)
    /\ \E k \in 1..Len(companies) : startsWith(arg, companies[k].symbol)
    /\ isError
    /\ ~requested

\* C13 as stated: after a call of a network-backed tool whose request failed
\* or whose response body has missing or malformed fields, the result is
\* marked isError and carries an error text; no exception escapes the handler
\* and the server keeps serving.
AnyFailureIsError ==
    (tool \in SymbolTools \cup MarketTools /\ requested) =>
        /\ (outcome # "ok" \/ payload \in {"missing", "wrong_type"})
              => (isError /\ text # "none")
        /\ ~propagated
        /\ pc = "serving"

\* C13 amended: a failed request and every exception raised while the
\* response body is processed end the call with a result marked isError that
\* carries an error text; no exception escapes the handler and the server
\* keeps serving.  Absent fields that the tool shows as N/A
\* (get_detailed_company_info, get_most_active_stocks, get_market_summary)
\* give an ordinary result.
ThrownFailureIsError ==
    tool \in SymbolTools \cup MarketTools =>
        /\ (requested /\ outcome # "ok") =>
              (isError /\ text \in {"timed_out", "api_error", "network_error"})
        /\ thrownAt # "none" => (isError /\ text # "none")
        /\ (/\ payload = "missing"
            /\ tool \in {"get_detailed_company_info", "get_most_active_stocks",
                         "get_market_summary"}) => ~isError
        /\ ~propagated
        /\ pc = "serving"
        /\ ENABLED GetMarketSummary

FormatFailureWitness ==
    /\ tool = "get_top_gainers"
    /\ outcome = "ok"
    /\ payload = "missing"
    /\ thrownAt = "format"
    /\ isError
    /\ text = "type_error"

====
